---- MODULE Spec2Model ----
(***************************************************************************)
(* A model of the gpmd RPC runtime: the client call multiplexer            *)
(* (Client.send / receive / terminateCalls / Close), the server engine     *)
(* (Server.serveCodec / handleRequest / sendResponse) joined by one        *)
(* connection, and the heartbeat registry (Registry.putServer /            *)
(* aliveServers).                                                          *)
(***************************************************************************)
EXTENDS Integers, Sequences, FiniteSets, TLC

(***************************************************************************)
(* Bounds of the model.                                                    *)
(***************************************************************************)
NCalls == 2          \* Calls submitted over the one client
MaxClose == 2        \* invocations of Client.Close
MaxTime == 3         \* last instant of the registry clock
MaxRegTimeout == 2   \* largest registry timeout tried
NAddrs == 2          \* server addresses that heartbeat
MaxServers == 3      \* longest server list handed to Update
MaxSeed == 4         \* largest initial round-robin cursor tried
MaxGets == 7         \* round-robin selections logged over one server list
MaxHeader == 3       \* characters in an X-GPMD-SERVERS header
MaxTTL == 2          \* largest discovery refresh TTL tried
NRegistrants == 3    \* goroutines calling Server.Register

Calls == 1..NCalls
Addrs == 1..NAddrs

(***************************************************************************)
(* Program constants.                                                      *)
(***************************************************************************)
FirstSeq == 1            \* NewClientCodec: seq: 1
DoneCap == 1             \* Client.Call: make(chan *Call, 1)
InvalidRequest == -1     \* var invalidRequest = struct{}{}
NoEntry == -1            \* r.servers[addr] == nil; no time recorded
MagicNumber == 19088743  \* const MagicNumber = 0x1234567
ZeroTime == -100         \* the zero time.Time, long before any instant of the clock

NoErr == ""
ErrShutdown == "connection is shut down"
ErrWrite == "write: connection closed"
ErrRead == "read: connection closed"
ErrMethod == "method error"
ErrNoMethod == "rpc server: can't find method Nope"
ErrHandleTimeout == "rpc server: request handle timeout: expect within d"
ErrReadingBody == "reading body failed:read: connection closed"
ErrDefined == "rpc: service already defined:"
ErrConnectTimeout == "rpc client: connect timeout: expect within d"
ErrOptions == "number of options is more than one"
ErrDial == "dial: connection refused"
ErrCodec == "invalid codec type"
ErrEncode == "encode: connection closed"

Methods == {"Foo.Sum", "Foo.Nope"}

GobType == "application/gob"
JsonType == "application/json"

\* codec.NewCodecFuncMap: init registers NewGobCodec alone.
NewCodecFuncMap == {GobType}

\* What ServeConn may find where the Option should be: JSON that decodes
\* into an Option, or bytes that do not.
Options ==
    [decodes : BOOLEAN, magic : {MagicNumber, MagicNumber + 1},
     codeType : {GobType, JsonType, ""}]

\* The Option NewClient encodes: parseOptions has set MagicNumber, and the
\* codec type has a factory.
ClientOption == [decodes |-> TRUE, magic |-> MagicNumber, codeType |-> GobType]
HandleTimeouts == {0, 1}

\* Holders of a mutex.
Free == <<"free", 0>>
Sender(c) == <<"send", c>>
Receiver == <<"receive", 0>>

VARIABLES
    \* ---- Client (part_000) ----
    sending,      \* Client.sending: holder of the send mutex
    mu,           \* Client.mu: holder of the state mutex
    seq,          \* Client.seq
    pending,      \* Client.pending: seq -> Call
    closing,      \* Client.closing
    shutdown,     \* Client.shutdown
    cpc,          \* position of the goroutine that submitted Call c
    callSeq,      \* Call.Seq (0 until registered)
    callMethod,   \* Call.ServerMethod
    callErr,      \* Call.Error
    callReply,    \* the value behind Call.Reply (0 until decoded)
    doneChan,     \* number of values buffered in Call.Done
    delivered,    \* how many times the Call was sent on Call.Done
    answeredBy,   \* the request whose response completed the Call (0: none)
    afterDown,    \* the Call was submitted with closing or shutdown already set
    frames,       \* request frames written for the Call
    rpc,          \* position of the receive goroutine
    rh,           \* the header receive holds (the response frame read)
    rcall,        \* the Call receive removed for it (0: nil)
    rerr,         \* err of the receive loop
    termTodo,     \* Calls terminateCalls has still to range over
    closeCount,   \* Close invocations so far
    closeRets,    \* what each Close returned, and whether it closed the codec
    \* ---- connection ----
    c2s,          \* byte stream client -> server: header and body items
    s2c,          \* byte stream server -> client: response frames
    ccClosed,     \* the client's codec was closed (Client.Close)
    connBroken,   \* the transport failed
    srvClosed,    \* the server closed its codec
    \* ---- Server (server.go) ----
    handleTimeout,\* opt.HandleTimeout
    sopt,         \* what ServeConn's json Decode finds at the start of the connection
    sCodec,       \* ServeConn built a codec over the connection: f(conn)
    spc,          \* position of serveCodec
    wg,           \* the WaitGroup counter
    reqSeq,       \* req.h.Seq of the request read for Call r
    argv,         \* req.argv
    hpc,          \* position of handleRequest for request r
    wpc,          \* position of its method goroutine
    merr,         \* err returned by req.svc.call
    timerFired,   \* the time.After channel of request r holds a value
    firedFirst,   \* the timer of request r fired before its method returned
    timedOut,     \* handleRequest took the select's timer case for request r
    respCount,    \* sendResponse invocations carrying request r's header
    respLog,      \* every response frame handed to cc.Write
    \* ---- Registry (part_001) ----
    regTimeout,   \* Registry.timeout
    servers,      \* Registry.servers: addr -> start (-1: no entry)
    now,          \* time.Now()
    lastPost,     \* time of the last POST of each address (-1: never)
    lastGet,      \* the last GET: when, what it returned, the POST times then
    \* ---- Discovery (xclient/discovery.go, xclient/discovery_gpmd.go) ----
    dServers,     \* MultiServerDiscovery.servers
    dIndex,       \* MultiServerDiscovery.index
    dTTL,         \* GpmdRegistryDiscovery.timeout
    dLastUpdate,  \* GpmdRegistryDiscovery.lastUpdate
    dpc,          \* position of the caller inside GpmdRegistryDiscovery.Get / GetAll
    dLast,        \* the Refresh that ran last, if no other operation has run since
    rrLog,        \* what Get(RoundRobinSelect) returned since servers was last set
    \* ---- Server.Register (server.go) ----
    serviceMap,   \* Server.serviceMap: name -> the registrant whose service is stored (0: none)
    gpc,          \* position of each goroutine that calls Register
    gName,        \* service.name of what it registers
    gRet,         \* what Register returned to it
    \* ---- dialTimeout (part_000) ----
    connectTimeout, \* opt.ConnectTimeout
    dlpc,         \* position of dialTimeout
    ipc,          \* position of the goroutine that runs f(conn, opt)
    iResult,      \* what f returned: the clientResult it sends on ch
    dlTimer,      \* the time.After channel holds a value
    dlTookTimer,  \* the select took the timer case
    dlRet,        \* what dialTimeout returned
    dlConn,       \* the connection net.DialTimeout returned: "none", "open", "closed"
    dlClosed      \* dialTimeout's deferred function closed the connection

clientVars == <<sending, mu, seq, pending, closing, shutdown, cpc, callSeq,
                callMethod, callErr, callReply, doneChan, delivered, answeredBy,
                afterDown, frames, rpc, rh, rcall, rerr, termTodo, closeCount,
                closeRets>>
connVars == <<c2s, s2c, ccClosed, connBroken, srvClosed>>
serverVars == <<handleTimeout, sopt, sCodec, spc, wg, reqSeq, argv, hpc, wpc, merr, timerFired,
                firedFirst, timedOut, respCount, respLog>>
regVars == <<regTimeout, servers, now, lastPost, lastGet>>
discVars == <<dServers, dIndex, dTTL, dLastUpdate, dpc, dLast, rrLog>>
svcVars == <<serviceMap, gpc, gName, gRet>>
dialVars == <<connectTimeout, dlpc, ipc, iResult, dlTimer, dlTookTimer, dlRet, dlConn,
              dlClosed>>
outerVars == <<discVars, svcVars, dialVars>>
vars == <<clientVars, connVars, serverVars, regVars, outerVars>>

(***************************************************************************)
(* Pure helpers.                                                           *)
(***************************************************************************)
\* Args{Num1: i, Num2: i*i} of the i-th caller, and Foo.Sum of them.
ArgsOf(c) == [Num1 |-> c, Num2 |-> c * c]
Sum(args) == args.Num1 + args.Num2

NoHeader == [seq |-> 0, err |-> NoErr, body |-> 0, req |-> 0]

\* The connection as the client's codec sees it.
ClientConnDown == ccClosed \/ connBroken

\* Mutant of PendingWithout: the entry is looked up but not deleted.
PendingWithout_Keep(p, s) == p

\* delete(client.pending, seq)
PendingWithout(p, s) == [k \in (DOMAIN p) \ {s} |-> p[k]]

\* client.pending[call.Seq] = call
PendingWith(p, s, c) == [k \in (DOMAIN p) \cup {s} |-> IF k = s THEN c ELSE p[k]]

\* client.pending[seq] (0 stands for nil)
PendingLookup(p, s) == IF s \in DOMAIN p THEN p[s] ELSE 0

\* Mutant of CanSignal: the Done channel is full (shared with other Calls
\* and not drained), so the send blocks.
CanSignal_Full(c) == FALSE

\* call.done(): call.Done <- call
CanSignal(c) == doneChan[c] < DoneCap

\* findService: the service map holds Foo with the one method Sum.
Resolves(m) == m = "Foo.Sum"


(***************************************************************************)
(* Client: the send path (Client.Go, Client.send, Client.Call).            *)
(***************************************************************************)
\* Client.Go builds the Call; Client.send takes the send mutex.
GoSend(c, m) ==
    /\ cpc[c] = "idle"
    /\ sending = Free
    /\ sending' = Sender(c)
    /\ callMethod' = [callMethod EXCEPT ![c] = m]
    /\ afterDown' = [afterDown EXCEPT ![c] = closing \/ shutdown]
    /\ cpc' = [cpc EXCEPT ![c] = "register"]
    /\ UNCHANGED <<mu, seq, pending, closing, shutdown, callSeq, callErr, callReply,
                   doneChan, delivered, answeredBy, frames, rpc, rh, rcall, rerr,
                   termTodo, closeCount, closeRets>>
    /\ UNCHANGED <<connVars, serverVars, regVars, outerVars>>

\* Mutant of RegisterRefused: only closing is tested.
RegisterRefused_ClosingOnly == closing

\* registerCall's test: if client.closing || client.shutdown
RegisterRefused == closing \/ shutdown

\* Mutant of NextSeq: the counter is not advanced.
NextSeq_Same(s) == s

\* registerCall: client.seq++
NextSeq(s) == s + 1

\* Client.registerCall, under mu from Lock to the deferred Unlock.
RegisterCall(c) ==
    /\ cpc[c] = "register"
    /\ mu = Free
    /\ IF RegisterRefused
       THEN /\ cpc' = [cpc EXCEPT ![c] = "refused"]
            /\ UNCHANGED <<callSeq, pending, seq>>
       ELSE /\ callSeq' = [callSeq EXCEPT ![c] = seq]
            /\ pending' = PendingWith(pending, seq, c)
            /\ seq' = NextSeq(seq)
            /\ cpc' = [cpc EXCEPT ![c] = "write"]
    /\ UNCHANGED <<sending, mu, closing, shutdown, callMethod, callErr, callReply,
                   doneChan, delivered, answeredBy, afterDown, frames, rpc, rh, rcall,
                   rerr, termTodo, closeCount, closeRets>>
    /\ UNCHANGED <<connVars, serverVars, regVars, outerVars>>

\* send: registerCall failed: call.Error = err; call.done(); return
SignalRefused(c) ==
    /\ cpc[c] = "refused"
    /\ CanSignal(c)
    /\ callErr' = [callErr EXCEPT ![c] = ErrShutdown]
    /\ doneChan' = [doneChan EXCEPT ![c] = @ + 1]
    /\ delivered' = [delivered EXCEPT ![c] = @ + 1]
    /\ cpc' = [cpc EXCEPT ![c] = "unlock"]
    /\ UNCHANGED <<sending, mu, seq, pending, closing, shutdown, callSeq, callMethod,
                   callReply, answeredBy, afterDown, frames, rpc, rh, rcall, rerr,
                   termTodo, closeCount, closeRets>>
    /\ UNCHANGED <<connVars, serverVars, regVars, outerVars>>

\* The request frame of Call c: the header send fills in, then the body.
RequestFrame(c) ==
    << [kind |-> "H", seq |-> callSeq[c], method |-> callMethod[c], call |-> c],
       [kind |-> "B", seq |-> 0, method |-> "", call |-> c] >>

\* send: client.cc.Write(&client.header, call.Args) succeeds.
WriteRequest(c) ==
    /\ cpc[c] = "write"
    /\ ~ClientConnDown
    /\ c2s' = c2s \o RequestFrame(c)
    /\ frames' = [frames EXCEPT ![c] = @ + 1]
    /\ cpc' = [cpc EXCEPT ![c] = "unlock"]
    /\ UNCHANGED <<sending, mu, seq, pending, closing, shutdown, callSeq, callMethod,
                   callErr, callReply, doneChan, delivered, answeredBy, afterDown, rpc,
                   rh, rcall, rerr, termTodo, closeCount, closeRets>>
    /\ UNCHANGED <<s2c, ccClosed, connBroken, srvClosed, serverVars, regVars, outerVars>>

\* send: client.cc.Write fails (the codec is closed or the transport failed).
WriteFails(c) ==
    /\ cpc[c] = "write"
    /\ ClientConnDown
    /\ cpc' = [cpc EXCEPT ![c] = "remove"]
    /\ UNCHANGED <<sending, mu, seq, pending, closing, shutdown, callSeq, callMethod,
                   callErr, callReply, doneChan, delivered, answeredBy, afterDown,
                   frames, rpc, rh, rcall, rerr, termTodo, closeCount, closeRets>>
    /\ UNCHANGED <<connVars, serverVars, regVars, outerVars>>

\* send: call := client.removeCall(seq) after the failed write (under mu).
RemoveFailed(c) ==
    /\ cpc[c] = "remove"
    /\ mu = Free
    /\ pending' = PendingWithout(pending, callSeq[c])
    /\ cpc' = [cpc EXCEPT ![c] =
                 IF PendingLookup(pending, callSeq[c]) # 0 THEN "failed" ELSE "unlock"]
    /\ UNCHANGED <<sending, mu, seq, closing, shutdown, callSeq, callMethod, callErr,
                   callReply, doneChan, delivered, answeredBy, afterDown, frames, rpc,
                   rh, rcall, rerr, termTodo, closeCount, closeRets>>
    /\ UNCHANGED <<connVars, serverVars, regVars, outerVars>>

\* send: if call != nil { call.Error = err; call.done() }
SignalFailed(c) ==
    /\ cpc[c] = "failed"
    /\ CanSignal(c)
    /\ callErr' = [callErr EXCEPT ![c] = ErrWrite]
    /\ doneChan' = [doneChan EXCEPT ![c] = @ + 1]
    /\ delivered' = [delivered EXCEPT ![c] = @ + 1]
    /\ cpc' = [cpc EXCEPT ![c] = "unlock"]
    /\ UNCHANGED <<sending, mu, seq, pending, closing, shutdown, callSeq, callMethod,
                   callReply, answeredBy, afterDown, frames, rpc, rh, rcall, rerr,
                   termTodo, closeCount, closeRets>>
    /\ UNCHANGED <<connVars, serverVars, regVars, outerVars>>

\* send returns: the deferred client.sending.Unlock(); Call then waits on Done.
SendUnlock(c) ==
    /\ cpc[c] = "unlock"
    /\ sending = Sender(c)
    /\ sending' = Free
    /\ cpc' = [cpc EXCEPT ![c] = "await"]
    /\ UNCHANGED <<mu, seq, pending, closing, shutdown, callSeq, callMethod, callErr,
                   callReply, doneChan, delivered, answeredBy, afterDown, frames, rpc,
                   rh, rcall, rerr, termTodo, closeCount, closeRets>>
    /\ UNCHANGED <<connVars, serverVars, regVars, outerVars>>

\* Client.Call: call := <-client.Go(...).Done; return call.Error
CallReturn(c) ==
    /\ cpc[c] = "await"
    /\ doneChan[c] > 0
    /\ doneChan' = [doneChan EXCEPT ![c] = @ - 1]
    /\ cpc' = [cpc EXCEPT ![c] = "returned"]
    /\ UNCHANGED <<sending, mu, seq, pending, closing, shutdown, callSeq, callMethod,
                   callErr, callReply, delivered, answeredBy, afterDown, frames, rpc,
                   rh, rcall, rerr, termTodo, closeCount, closeRets>>
    /\ UNCHANGED <<connVars, serverVars, regVars, outerVars>>

(***************************************************************************)
(* Client: the receive loop and terminateCalls.                            *)
(***************************************************************************)
\* receive: ReadHeader succeeds; call := client.removeCall(h.Seq) (under mu).
RecvHeader ==
    /\ rpc = "read"
    /\ ~ccClosed
    /\ s2c # << >>
    /\ mu = Free
    /\ rh' = Head(s2c)
    /\ s2c' = Tail(s2c)
    /\ rcall' = PendingLookup(pending, Head(s2c).seq)
    /\ pending' = PendingWithout(pending, Head(s2c).seq)
    /\ rpc' = "body"
    /\ UNCHANGED <<sending, mu, seq, closing, shutdown, cpc, callSeq, callMethod,
                   callErr, callReply, doneChan, delivered, answeredBy, afterDown,
                   frames, rerr, termTodo, closeCount, closeRets>>
    /\ UNCHANGED <<c2s, ccClosed, connBroken, srvClosed, serverVars, regVars, outerVars>>

\* receive: ReadHeader fails: the codec was closed, or the stream ended.
RecvReadFails ==
    /\ rpc = "read"
    /\ \/ ccClosed
       \/ s2c = << >> /\ (connBroken \/ srvClosed)
    /\ rerr' = ErrRead
    /\ rpc' = "terminate"
    /\ UNCHANGED <<sending, mu, seq, pending, closing, shutdown, cpc, callSeq,
                   callMethod, callErr, callReply, doneChan, delivered, answeredBy,
                   afterDown, frames, rh, rcall, termTodo, closeCount, closeRets>>
    /\ UNCHANGED <<connVars, serverVars, regVars, outerVars>>

\* receive: the switch on the removed call; ok is whether ReadBody succeeds.
RecvBody(ok) ==
    /\ rpc = "body"
    /\ ok \/ ClientConnDown
    /\ rcall # 0 => CanSignal(rcall)
    /\ IF rcall = 0
       THEN UNCHANGED <<callErr, callReply, doneChan, delivered, answeredBy>>
       ELSE /\ callErr' = [callErr EXCEPT ![rcall] =
                              IF rh.err # NoErr THEN rh.err
                              ELSE IF ok THEN @ ELSE ErrReadingBody]
            /\ callReply' = [callReply EXCEPT ![rcall] =
                              IF rh.err = NoErr /\ ok THEN rh.body ELSE @]
            /\ doneChan' = [doneChan EXCEPT ![rcall] = @ + 1]
            /\ delivered' = [delivered EXCEPT ![rcall] = @ + 1]
            /\ answeredBy' = [answeredBy EXCEPT ![rcall] = rh.req]
    /\ rerr' = IF ok THEN NoErr ELSE ErrRead
    /\ rpc' = IF ok THEN "read" ELSE "terminate"
    /\ UNCHANGED <<sending, mu, seq, pending, closing, shutdown, cpc, callSeq,
                   callMethod, afterDown, frames, rh, rcall, termTodo, closeCount,
                   closeRets>>
    /\ UNCHANGED <<connVars, serverVars, regVars, outerVars>>

\* terminateCalls: client.sending.Lock()
TermLockSending ==
    /\ rpc = "terminate"
    /\ sending = Free
    /\ sending' = Receiver
    /\ rpc' = "lockMu"
    /\ UNCHANGED <<mu, seq, pending, closing, shutdown, cpc, callSeq, callMethod,
                   callErr, callReply, doneChan, delivered, answeredBy, afterDown,
                   frames, rh, rcall, rerr, termTodo, closeCount, closeRets>>
    /\ UNCHANGED <<connVars, serverVars, regVars, outerVars>>

\* Mutant of TermRange: shutdown is marked but no pending Call is signalled.
TermRange_None(p) == {}

\* The Calls terminateCalls ranges over: for _, call := range client.pending
TermRange(p) == DOMAIN p

\* terminateCalls: client.mu.Lock(); client.shutdown = true
TermLockMu ==
    /\ rpc = "lockMu"
    /\ mu = Free
    /\ mu' = Receiver
    /\ shutdown' = TRUE
    /\ termTodo' = TermRange(pending)
    /\ rpc' = "range"
    /\ UNCHANGED <<sending, seq, pending, closing, cpc, callSeq, callMethod, callErr,
                   callReply, doneChan, delivered, answeredBy, afterDown, frames, rh,
                   rcall, rerr, closeCount, closeRets>>
    /\ UNCHANGED <<connVars, serverVars, regVars, outerVars>>

\* terminateCalls: one iteration: call.Error = err; call.done()
TermSignal(s) ==
    /\ rpc = "range"
    /\ s \in termTodo
    /\ CanSignal(pending[s])
    /\ callErr' = [callErr EXCEPT ![pending[s]] = rerr]
    /\ doneChan' = [doneChan EXCEPT ![pending[s]] = @ + 1]
    /\ delivered' = [delivered EXCEPT ![pending[s]] = @ + 1]
    /\ termTodo' = termTodo \ {s}
    /\ UNCHANGED <<sending, mu, seq, pending, closing, shutdown, cpc, callSeq,
                   callMethod, callReply, answeredBy, afterDown, frames, rpc, rh,
                   rcall, rerr, closeCount, closeRets>>
    /\ UNCHANGED <<connVars, serverVars, regVars, outerVars>>

\* terminateCalls returns: the deferred mu.Unlock() and sending.Unlock().
TermUnlock ==
    /\ rpc = "range"
    /\ termTodo = {}
    /\ mu' = Free
    /\ sending' = Free
    /\ rpc' = "exited"
    /\ UNCHANGED <<seq, pending, closing, shutdown, cpc, callSeq, callMethod, callErr,
                   callReply, doneChan, delivered, answeredBy, afterDown, frames, rh,
                   rcall, rerr, termTodo, closeCount, closeRets>>
    /\ UNCHANGED <<connVars, serverVars, regVars, outerVars>>

(***************************************************************************)
(* Client.Close, and the transport failing under the client.               *)
(***************************************************************************)
\* Mutant of CloseRefused: shutdown is tested in place of closing.
CloseRefused_Shutdown == shutdown

\* Close's test: if client.closing { return ErrShutdown }
CloseRefused == closing

\* Client.IsAvailable: return !client.shutdown && !client.closing
IsAvailable == ~shutdown /\ ~closing

\* Client.Close, under mu; what it returned and whether it called
\* client.cc.Close() is appended to closeRets.
Close ==
    /\ closeCount < MaxClose
    /\ mu = Free
    /\ closeCount' = closeCount + 1
    /\ IF CloseRefused
       THEN /\ closeRets' = Append(closeRets, [err |-> ErrShutdown, closed |-> FALSE])
            /\ UNCHANGED <<closing, ccClosed>>
       ELSE /\ closing' = TRUE
            /\ ccClosed' = TRUE
            /\ closeRets' = Append(closeRets, [err |-> NoErr, closed |-> TRUE])
    /\ UNCHANGED <<sending, mu, seq, pending, shutdown, cpc, callSeq, callMethod,
                   callErr, callReply, doneChan, delivered, answeredBy, afterDown,
                   frames, rpc, rh, rcall, rerr, termTodo>>
    /\ UNCHANGED <<c2s, s2c, connBroken, srvClosed, serverVars, regVars, outerVars>>

Break ==
    /\ ~connBroken
    /\ ~ccClosed
    /\ connBroken' = TRUE
    /\ UNCHANGED <<c2s, s2c, ccClosed, srvClosed, clientVars, serverVars, regVars, outerVars>>


(***************************************************************************)
(* Server: sendResponse, serveCodec, handleRequest.                        *)
(***************************************************************************)
\* The connection as the server's codec sees it.
ServerConnDown == ccClosed \/ connBroken \/ srvClosed

\* Mutant of ResponseFor: one header is reused for every request, so a
\* response carries the sequence number of the request read last.
ResponseFor_Reused(r, e, body) ==
    [seq |-> CHOOSE n \in {reqSeq[q] : q \in Calls} :
                 \A q \in Calls : reqSeq[q] <= n,
     err |-> e, body |-> body, req |-> r]

\* The response header for request r: req.h with its Error field set.
ResponseFor(r, e, body) == [seq |-> reqSeq[r], err |-> e, body |-> body, req |-> r]

\* Server.sendResponse: cc.Write(h, body) under the connection's sending
\* mutex; a failed write is logged and the frame is lost.
SendResponse(f) ==
    /\ s2c' = IF ServerConnDown THEN s2c ELSE Append(s2c, f)
    /\ respLog' = respLog \cup {f}
    /\ respCount' = [respCount EXCEPT ![f.req] = @ + 1]

\* Mutant of OptionAccepted: the codec factory is not looked up.
OptionAccepted_MagicOnly(opt) == opt.decodes /\ opt.magic = MagicNumber

\* ServeConn's three tests: Decode(&opt) succeeds, opt.MagicNumber ==
\* MagicNumber, codec.NewCodecFuncMap[opt.CodeType] != nil.
OptionAccepted(opt) ==
    /\ opt.decodes
    /\ opt.magic = MagicNumber
    /\ opt.codeType \in NewCodecFuncMap

\* Server.ServeConn up to its call of serveCodec: on a failed test it
\* returns, and the deferred conn.Close() runs.
ServeConn ==
    /\ spc = "accept"
    /\ IF OptionAccepted(sopt)
       THEN /\ sCodec' = TRUE
            /\ spc' = "serve"
            /\ UNCHANGED srvClosed
       ELSE /\ spc' = "refused"
            /\ srvClosed' = TRUE
            /\ UNCHANGED sCodec
    /\ UNCHANGED <<handleTimeout, sopt, wg, reqSeq, argv, hpc, wpc, merr, timerFired,
                   firedFirst, timedOut, respCount, respLog>>
    /\ UNCHANGED <<c2s, s2c, ccClosed, connBroken, clientVars, regVars, outerVars>>

\* serveCodec: readRequest succeeds; wg.Add(1); go s.handleRequest(...)
ServeDispatch ==
    /\ spc = "serve"
    /\ Len(c2s) >= 2
    /\ Head(c2s).kind = "H"
    /\ Resolves(Head(c2s).method)
    /\ LET h == Head(c2s)
           r == h.call
       IN  /\ reqSeq' = [reqSeq EXCEPT ![r] = h.seq]
           /\ argv' = [argv EXCEPT ![r] = ArgsOf(c2s[2].call)]
           /\ hpc' = [hpc EXCEPT ![r] = "waitCalled"]
           /\ wpc' = [wpc EXCEPT ![r] = "call"]
    /\ c2s' = Tail(Tail(c2s))
    /\ wg' = wg + 1
    /\ UNCHANGED <<handleTimeout, sopt, sCodec, spc, merr, timerFired, firedFirst, timedOut,
                   respCount, respLog>>
    /\ UNCHANGED <<s2c, ccClosed, connBroken, srvClosed, clientVars, regVars, outerVars>>

\* serveCodec: readRequest returns (req, err) from findService, the body
\* unread; req.h.Error = err.Error(); sendResponse(invalidRequest); continue
ServeResolveError ==
    /\ spc = "serve"
    /\ c2s # << >>
    /\ Head(c2s).kind = "H"
    /\ ~Resolves(Head(c2s).method)
    /\ LET h == Head(c2s)
       IN  /\ reqSeq' = [reqSeq EXCEPT ![h.call] = h.seq]
           /\ SendResponse([seq |-> h.seq, err |-> ErrNoMethod,
                            body |-> InvalidRequest, req |-> h.call])
    /\ c2s' = Tail(c2s)
    /\ UNCHANGED <<handleTimeout, sopt, sCodec, spc, wg, argv, hpc, wpc, merr, timerFired,
                   firedFirst, timedOut>>
    /\ UNCHANGED <<ccClosed, connBroken, srvClosed, clientVars, regVars, outerVars>>

\* serveCodec: readRequestHeader fails (req == nil): break. The stream ended,
\* or what stands at the head of the stream is not a header.
ServeReadFails ==
    /\ spc = "serve"
    /\ \/ c2s = << >> /\ ClientConnDown
       \/ c2s # << >> /\ Head(c2s).kind = "B"
    /\ spc' = "wait"
    /\ UNCHANGED <<handleTimeout, sopt, sCodec, wg, reqSeq, argv, hpc, wpc, merr, timerFired,
                   firedFirst, timedOut, respCount, respLog>>
    /\ UNCHANGED <<connVars, clientVars, regVars, outerVars>>

\* serveCodec: wg.Wait() returns; _ = cc.Close()
ServeClose ==
    /\ spc = "wait"
    /\ wg = 0
    /\ spc' = "closed"
    /\ srvClosed' = TRUE
    /\ UNCHANGED <<handleTimeout, sopt, sCodec, wg, reqSeq, argv, hpc, wpc, merr, timerFired,
                   firedFirst, timedOut, respCount, respLog>>
    /\ UNCHANGED <<c2s, s2c, ccClosed, connBroken, clientVars, regVars, outerVars>>

\* Where the method goroutine goes after called <- struct{}{} was received.
AfterCalled(e) == IF e # NoErr THEN "respond" ELSE "done"

\* Mutant of MethodReturns: the send on called does not wait for
\* handleRequest to receive (a buffered channel).
MethodReturns_Unsynced(r, e) ==
    /\ wpc[r] = "call"
    /\ merr' = [merr EXCEPT ![r] = e]
    /\ wpc' = [wpc EXCEPT ![r] = AfterCalled(e)]
    /\ UNCHANGED <<handleTimeout, sopt, sCodec, spc, wg, reqSeq, argv, hpc, timerFired,
                   firedFirst, timedOut, respCount, respLog>>
    /\ UNCHANGED <<connVars, clientVars, regVars, outerVars>>

\* The method goroutine: err := req.svc.call(...) returns e; it then blocks
\* on called <- struct{}{}.
MethodReturns(r, e) ==
    /\ wpc[r] = "call"
    /\ merr' = [merr EXCEPT ![r] = e]
    /\ wpc' = [wpc EXCEPT ![r] = "called"]
    /\ UNCHANGED <<handleTimeout, sopt, sCodec, spc, wg, reqSeq, argv, hpc, timerFired,
                   firedFirst, timedOut, respCount, respLog>>
    /\ UNCHANGED <<connVars, clientVars, regVars, outerVars>>

\* handleRequest receives from called (<-called, or the select's case
\* <-called) as the method goroutine sends on it.
ReceiveCalled(r) ==
    /\ hpc[r] = "waitCalled"
    /\ wpc[r] = "called"
    /\ hpc' = [hpc EXCEPT ![r] = "waitSent"]
    /\ wpc' = [wpc EXCEPT ![r] = AfterCalled(merr[r])]
    /\ UNCHANGED <<handleTimeout, sopt, sCodec, spc, wg, reqSeq, argv, merr, timerFired,
                   firedFirst, timedOut, respCount, respLog>>
    /\ UNCHANGED <<connVars, clientVars, regVars, outerVars>>

\* The method goroutine: req.h.Error = err.Error(); sendResponse(invalidRequest)
MethodResponds(r) ==
    /\ wpc[r] = "respond"
    /\ SendResponse(ResponseFor(r, merr[r], InvalidRequest))
    /\ wpc' = [wpc EXCEPT ![r] = "sent"]
    /\ UNCHANGED <<handleTimeout, sopt, sCodec, spc, wg, reqSeq, argv, hpc, merr, timerFired,
                   firedFirst, timedOut>>
    /\ UNCHANGED <<c2s, ccClosed, connBroken, srvClosed, clientVars, regVars, outerVars>>

\* handleRequest receives from sent as the method goroutine sends on it;
\* both return, and the deferred wg.Done() runs.
ReceiveSent(r) ==
    /\ hpc[r] = "waitSent"
    /\ wpc[r] = "sent"
    /\ hpc' = [hpc EXCEPT ![r] = "done"]
    /\ wpc' = [wpc EXCEPT ![r] = "done"]
    /\ wg' = wg - 1
    /\ UNCHANGED <<handleTimeout, sopt, sCodec, spc, reqSeq, argv, merr, timerFired,
                   firedFirst, timedOut, respCount, respLog>>
    /\ UNCHANGED <<connVars, clientVars, regVars, outerVars>>

\* The timer of time.After(timeout) fires: its channel now holds a value.
TimerFires(r) ==
    /\ handleTimeout # 0
    /\ hpc[r] = "waitCalled"
    /\ ~timerFired[r]
    /\ timerFired' = [timerFired EXCEPT ![r] = TRUE]
    /\ firedFirst' = [firedFirst EXCEPT ![r] = wpc[r] = "call"]
    /\ UNCHANGED <<handleTimeout, sopt, sCodec, spc, wg, reqSeq, argv, hpc, wpc, merr, timedOut,
                   respCount, respLog>>
    /\ UNCHANGED <<connVars, clientVars, regVars, outerVars>>

\* Mutant of TimeoutResponse: req.h.Error is left as the request had it.
TimeoutResponse_NoError(r) == ResponseFor(r, NoErr, InvalidRequest)

\* handleRequest, the timer case: req.h.Error = fmt.Sprintf("rpc server:
\* request handle timeout: expect within %s", timeout), body invalidRequest.
TimeoutResponse(r) == ResponseFor(r, ErrHandleTimeout, InvalidRequest)

\* handleRequest: the select takes case <-time.After(timeout): the timeout
\* response is sent, handleRequest returns and the deferred wg.Done() runs.
HandleTimeout(r) ==
    /\ hpc[r] = "waitCalled"
    /\ timerFired[r]
    /\ SendResponse(TimeoutResponse(r))
    /\ hpc' = [hpc EXCEPT ![r] = "done"]
    /\ timedOut' = [timedOut EXCEPT ![r] = TRUE]
    /\ wg' = wg - 1
    /\ UNCHANGED <<handleTimeout, sopt, sCodec, spc, reqSeq, argv, wpc, merr, timerFired,
                   firedFirst>>
    /\ UNCHANGED <<c2s, ccClosed, connBroken, srvClosed, clientVars, regVars, outerVars>>

(***************************************************************************)
(* The connection specification: one client, one connection, its server.   *)
(***************************************************************************)
\* No Refresh has run yet; no caller is inside Get / GetAll.
NoRefresh == [fresh |-> FALSE, fetched |-> FALSE, ok |-> FALSE, resp |-> << >>]
Idle == [at |-> "idle", mode |-> ""]

\* No discovery is in use.
DiscoveryIdle ==
    /\ dServers = << >>
    /\ dIndex = 0
    /\ dTTL = 1
    /\ dLastUpdate = ZeroTime
    /\ dpc = Idle
    /\ dLast = NoRefresh
    /\ rrLog = << >>

\* No service is being registered and no client is being dialled.
SetupIdle ==
    /\ serviceMap = << >>
    /\ gpc = << >>
    /\ gName = << >>
    /\ gRet = << >>
    /\ connectTimeout = 0
    /\ dlpc = "returned"
    /\ ipc = "done"
    /\ iResult = [client |-> TRUE, err |-> NoErr]
    /\ dlTimer = FALSE
    /\ dlTookTimer = FALSE
    /\ dlRet = [client |-> TRUE, err |-> NoErr]
    /\ dlConn = "open"
    /\ dlClosed = FALSE

\* No GET has been served yet.
NoGet ==
    [at |-> NoEntry, alive |-> {}, posts |-> [a \in Addrs |-> NoEntry],
     header |-> << >>, before |-> [a \in Addrs |-> NoEntry],
     after |-> [a \in Addrs |-> NoEntry]]

RegistryIdle ==
    /\ regTimeout = 0
    /\ servers = [a \in Addrs |-> NoEntry]
    /\ now = 0
    /\ lastPost = [a \in Addrs |-> NoEntry]
    /\ lastGet = NoGet

\* NewClientCodec (client) and the server's connection state, apart from
\* where ServeConn stands.
ConnState ==
    /\ sending = Free
    /\ mu = Free
    /\ seq = FirstSeq
    /\ pending = << >>
    /\ closing = FALSE
    /\ shutdown = FALSE
    /\ cpc = [c \in Calls |-> "idle"]
    /\ callSeq = [c \in Calls |-> 0]
    /\ callMethod = [c \in Calls |-> ""]
    /\ callErr = [c \in Calls |-> NoErr]
    /\ callReply = [c \in Calls |-> 0]
    /\ doneChan = [c \in Calls |-> 0]
    /\ delivered = [c \in Calls |-> 0]
    /\ answeredBy = [c \in Calls |-> 0]
    /\ afterDown = [c \in Calls |-> FALSE]
    /\ frames = [c \in Calls |-> 0]
    /\ rpc = "read"
    /\ rh = NoHeader
    /\ rcall = 0
    /\ rerr = NoErr
    /\ termTodo = {}
    /\ closeCount = 0
    /\ closeRets = << >>
    /\ c2s = << >>
    /\ s2c = << >>
    /\ ccClosed = FALSE
    /\ connBroken = FALSE
    /\ srvClosed = FALSE
    /\ handleTimeout \in HandleTimeouts
    /\ wg = 0
    /\ reqSeq = [c \in Calls |-> 0]
    /\ argv = [c \in Calls |-> ArgsOf(0)]
    /\ hpc = [c \in Calls |-> "none"]
    /\ wpc = [c \in Calls |-> "none"]
    /\ merr = [c \in Calls |-> NoErr]
    /\ timerFired = [c \in Calls |-> FALSE]
    /\ firedFirst = [c \in Calls |-> FALSE]
    /\ timedOut = [c \in Calls |-> FALSE]
    /\ respCount = [c \in Calls |-> 0]
    /\ respLog = {}

\* NewClientCodec (client) and serveCodec's entry (server), after the
\* handshake has selected the codec.
ConnInit ==
    /\ ConnState
    /\ sopt = ClientOption
    /\ sCodec = TRUE
    /\ spc = "serve"

Init == ConnInit /\ RegistryIdle /\ DiscoveryIdle /\ SetupIdle

ClientNext ==
    \/ \E c \in Calls, m \in Methods : GoSend(c, m)
    \/ \E c \in Calls : RegisterCall(c)
    \/ \E c \in Calls : SignalRefused(c)
    \/ \E c \in Calls : WriteRequest(c)
    \/ \E c \in Calls : WriteFails(c)
    \/ \E c \in Calls : RemoveFailed(c)
    \/ \E c \in Calls : SignalFailed(c)
    \/ \E c \in Calls : SendUnlock(c)
    \/ \E c \in Calls : CallReturn(c)
    \/ RecvHeader
    \/ RecvReadFails
    \/ \E ok \in BOOLEAN : RecvBody(ok)
    \/ TermLockSending
    \/ TermLockMu
    \/ \E s \in termTodo : TermSignal(s)
    \/ TermUnlock

ServerNext ==
    \/ ServeDispatch
    \/ ServeResolveError
    \/ ServeReadFails
    \/ ServeClose
    \/ \E r \in Calls, e \in {NoErr, ErrMethod} : MethodReturns(r, e)
    \/ \E r \in Calls : ReceiveCalled(r)
    \/ \E r \in Calls : MethodResponds(r)
    \/ \E r \in Calls : ReceiveSent(r)
    \/ \E r \in Calls : TimerFires(r)
    \/ \E r \in Calls : HandleTimeout(r)

EnvNext == Close \/ Break

Next == ClientNext \/ ServerNext \/ EnvNext

Spec == Init /\ [][Next]_vars


(***************************************************************************)
(* The connection with the environment a synchronous test runs in: every   *)
(* call names the registered method Foo.Sum and the transport does not     *)
(* fail; Close is the caller's choice. Every goroutine that can take a     *)
(* step eventually takes one.                                              *)
(***************************************************************************)
LiveSystem ==
    \/ \E c \in Calls : GoSend(c, "Foo.Sum")
    \/ \E c \in Calls : RegisterCall(c)
    \/ \E c \in Calls : SignalRefused(c)
    \/ \E c \in Calls : WriteRequest(c)
    \/ \E c \in Calls : WriteFails(c)
    \/ \E c \in Calls : RemoveFailed(c)
    \/ \E c \in Calls : SignalFailed(c)
    \/ \E c \in Calls : SendUnlock(c)
    \/ \E c \in Calls : CallReturn(c)
    \/ RecvHeader
    \/ RecvReadFails
    \/ \E ok \in BOOLEAN : RecvBody(ok)
    \/ TermLockSending
    \/ TermLockMu
    \/ \E s \in termTodo : TermSignal(s)
    \/ TermUnlock
    \/ ServeDispatch
    \/ ServeReadFails
    \/ ServeClose
    \/ \E r \in Calls, e \in {NoErr, ErrMethod} : MethodReturns(r, e)
    \/ \E r \in Calls : ReceiveCalled(r)
    \/ \E r \in Calls : MethodResponds(r)
    \/ \E r \in Calls : ReceiveSent(r)
    \/ \E r \in Calls : TimerFires(r)
    \/ \E r \in Calls : HandleTimeout(r)

LiveNext == LiveSystem \/ Close

LiveSpec == Init /\ [][LiveNext]_vars /\ WF_vars(LiveSystem)

(***************************************************************************)
(* The connection from the moment the server accepts it: ServeConn reads   *)
(* whatever stands where the Option should be, while the peer is free to   *)
(* write requests for the registered method behind it and to close.        *)
(***************************************************************************)
HandshakeInit ==
    /\ ConnState
    /\ sopt \in Options
    /\ sCodec = FALSE
    /\ spc = "accept"
    /\ RegistryIdle
    /\ DiscoveryIdle
    /\ SetupIdle

HandshakeNext == ServeConn \/ LiveNext

HandshakeSpec == HandshakeInit /\ [][HandshakeNext]_vars

(***************************************************************************)
(* The registry (part_001): putServer, aliveServers, and the clock.        *)
(***************************************************************************)
\* aliveServers' test: r.timeout == 0 || s.start.Add(r.timeout).After(time.Now())
IsAlive(start, timeout, t) == timeout = 0 \/ start + timeout > t

\* The addresses aliveServers appends to alive.
AliveServers == {a \in Addrs : servers[a] # NoEntry /\ IsAlive(servers[a], regTimeout, now)}

\* ServeHTTP, case "POST": r.putServer(addr)
Post(a) ==
    /\ servers' = [servers EXCEPT ![a] = now]
    /\ lastPost' = [lastPost EXCEPT ![a] = now]
    /\ UNCHANGED <<regTimeout, now, lastGet>>
    /\ UNCHANGED <<clientVars, connVars, serverVars, outerVars>>

\* The orders in which `for addr, s := range r.servers` may append the
\* addresses of S to alive (Go leaves the iteration order of a map open).
Orders(S) ==
    {o \in [1..Cardinality(S) -> S] :
        \A i, j \in 1..Cardinality(S) : i # j => o[i] # o[j]}

\* sort.Strings(alive), as an insertion sort. An address is a number that
\* stands for a string, the order of the numbers being the order of the
\* strings.
RECURSIVE Insert(_, _)
Insert(x, s) ==
    IF s = << >> THEN <<x>>
    ELSE IF x <= Head(s) THEN <<x>> \o s
    ELSE <<Head(s)>> \o Insert(x, Tail(s))

RECURSIVE SortStrings(_)
SortStrings(s) == IF s = << >> THEN << >> ELSE Insert(Head(s), SortStrings(Tail(s)))

\* ServeHTTP, case "GET": r.aliveServers(), which deletes the other entries,
\* sorts what it collected and hands it to strings.Join for the header.
Get ==
    /\ servers' = [a \in Addrs |-> IF a \in AliveServers THEN servers[a] ELSE NoEntry]
    /\ \E order \in Orders(AliveServers) :
          lastGet' = [at |-> now, alive |-> AliveServers, posts |-> lastPost,
                      header |-> SortStrings(order), before |-> servers,
                      after |-> servers']
    /\ UNCHANGED <<regTimeout, now, lastPost>>
    /\ UNCHANGED <<clientVars, connVars, serverVars, outerVars>>

\* Time passes.
Tick ==
    /\ now < MaxTime
    /\ now' = now + 1
    /\ UNCHANGED <<regTimeout, servers, lastPost, lastGet>>
    /\ UNCHANGED <<clientVars, connVars, serverVars, outerVars>>

\* registry.New(timeout)
RegistryInit ==
    /\ regTimeout \in 0..MaxRegTimeout
    /\ servers = [a \in Addrs |-> NoEntry]
    /\ now = 0
    /\ lastPost = [a \in Addrs |-> NoEntry]
    /\ lastGet = NoGet

RegistryNext == (\E a \in Addrs : Post(a)) \/ Get \/ Tick

RegistrySpecInit ==
    ConnInit /\ handleTimeout = 0 /\ RegistryInit /\ DiscoveryIdle /\ SetupIdle

RegistrySpec == RegistrySpecInit /\ [][RegistryNext]_vars


(***************************************************************************)
(* Discovery (xclient): MultiServerDiscovery and the registry-driven       *)
(* GpmdRegistryDiscovery wrapped around it.                                *)
(***************************************************************************)
\* A string is a sequence of characters; a header is a string.
Chars == {"a", "b", " ", ","}
Strings(n) == UNION {[1..k -> Chars] : k \in 0..n}
Headers == Strings(MaxHeader)

\* The lists a caller hands to Update.
Names == {<<"a">>, <<"b">>}
UpdateLists == UNION {[1..k -> Names] : k \in 0..MaxServers}

Modes == {"RandomSelect", "RoundRobinSelect", "Unsupported"}

\* The entry points of the registry-driven discovery that begin with Refresh.
Callers == {<<"Refresh", "">>, <<"GetAll", "">>} \cup {<<"Get", m>> : m \in Modes}

\* strings.Split(s, ",")
RECURSIVE SplitComma(_)
SplitComma(s) ==
    IF s = << >> THEN << << >> >>
    ELSE LET rest == SplitComma(Tail(s))
         IN  IF Head(s) = "," THEN << << >> >> \o rest
             ELSE << <<Head(s)>> \o Head(rest) >> \o Tail(rest)

RECURSIVE TrimLeft(_)
TrimLeft(s) == IF s # << >> /\ Head(s) = " " THEN TrimLeft(Tail(s)) ELSE s

RECURSIVE TrimRight(_)
TrimRight(s) ==
    IF s # << >> /\ s[Len(s)] = " " THEN TrimRight(SubSeq(s, 1, Len(s) - 1)) ELSE s

\* Mutant of TrimSpace: only leading white space is cut.
TrimSpace_LeftOnly(s) == TrimLeft(s)

\* strings.TrimSpace(s)
TrimSpace(s) == TrimRight(TrimLeft(s))

\* Refresh's loop: for _, server := range servers { if TrimSpace(server) != ""
\* { d.servers = append(d.servers, TrimSpace(server)) } }
RECURSIVE KeepServers(_)
KeepServers(pieces) ==
    IF pieces = << >> THEN << >>
    ELSE IF TrimSpace(Head(pieces)) # << >>
         THEN <<TrimSpace(Head(pieces))>> \o KeepServers(Tail(pieces))
         ELSE KeepServers(Tail(pieces))

\* What Refresh stores for the header resp.
ParseServers(resp) == KeepServers(SplitComma(resp))

\* Refresh's test: d.lastUpdate.Add(d.timeout).After(time.Now())
IsFresh(lastUpdate, ttl, t) == lastUpdate + ttl > t

\* Where GpmdRegistryDiscovery.Get / GetAll / a bare Refresh goes on after
\* Refresh returned nil.
AfterRefresh(caller, mode) ==
    IF caller = "Get" THEN [at |-> "select", mode |-> mode]
    ELSE IF caller = "GetAll" THEN [at |-> "getall", mode |-> ""]
    ELSE Idle

\* GpmdRegistryDiscovery.Refresh, under d.mu, called directly or as the
\* first statement of Get / GetAll. Within the TTL it returns at once;
\* otherwise http.Get either fails (err) or answers with a header.
DRefresh(caller, mode) ==
    /\ dpc = Idle
    /\ IF IsFresh(dLastUpdate, dTTL, now)
       THEN /\ dLast' = [fresh |-> TRUE, fetched |-> FALSE,
                         ok |-> TRUE, resp |-> << >>]
            /\ dpc' = AfterRefresh(caller, mode)
            /\ UNCHANGED <<dServers, dLastUpdate, rrLog>>
       ELSE \/ /\ dLast' = [fresh |-> FALSE, fetched |-> TRUE,
                            ok |-> FALSE, resp |-> << >>]
               /\ UNCHANGED <<dServers, dLastUpdate, rrLog, dpc>>
            \/ \E resp \in Headers :
                  /\ dServers' = ParseServers(resp)
                  /\ dLastUpdate' = now
                  /\ rrLog' = << >>
                  /\ dLast' = [fresh |-> FALSE, fetched |-> TRUE,
                               ok |-> TRUE, resp |-> resp]
                  /\ dpc' = AfterRefresh(caller, mode)
    /\ UNCHANGED <<dIndex, dTTL>>
    /\ UNCHANGED <<clientVars, connVars, serverVars, regVars, svcVars, dialVars>>

\* GpmdRegistryDiscovery.Update
DUpdate(list) ==
    /\ dServers' = list
    /\ dLastUpdate' = now
    /\ rrLog' = << >>
    /\ dLast' = NoRefresh
    /\ UNCHANGED <<dIndex, dTTL, dpc>>
    /\ UNCHANGED <<clientVars, connVars, serverVars, regVars, svcVars, dialVars>>

\* Mutant of RoundRobinNext: the cursor is reduced but not advanced.
RoundRobinNext_Stay(index, n) == index % n

\* d.index = (d.index + 1) % n
RoundRobinNext(index, n) == (index + 1) % n

\* d.servers[d.index%n], as a position 1..n of the list
RoundRobinPick(index, n) == (index % n) + 1

\* MultiServerDiscovery.Get(mode), under d.mu: what it does to the cursor.
MultiGet(mode) ==
    LET n == Len(dServers)
    IN  dIndex' = IF n # 0 /\ mode = "RoundRobinSelect"
                  THEN RoundRobinNext(dIndex, n)
                  ELSE dIndex

\* GpmdRegistryDiscovery.Get, its second statement:
\* return d.MultiServerDiscovery.Get(mode)
DSelect ==
    /\ dpc.at = "select"
    /\ dpc' = Idle
    /\ MultiGet(dpc.mode)
    /\ dLast' = NoRefresh
    /\ UNCHANGED <<dServers, dTTL, dLastUpdate, rrLog>>
    /\ UNCHANGED <<clientVars, connVars, serverVars, regVars, svcVars, dialVars>>

\* MultiServerDiscovery.GetAll, the second statement of
\* GpmdRegistryDiscovery.GetAll: a copy of d.servers is returned.
DGetAll ==
    /\ dpc.at = "getall"
    /\ dpc' = Idle
    /\ dLast' = NoRefresh
    /\ UNCHANGED <<dServers, dIndex, dTTL, dLastUpdate, rrLog>>
    /\ UNCHANGED <<clientVars, connVars, serverVars, regVars, svcVars, dialVars>>

\* NewGpmdRegistryDiscovery(registry, timeout): an empty list, the cursor
\* seeded by r.Intn(math.MaxInt32 - 1), lastUpdate the zero time.
DiscoveryInit ==
    /\ dServers = << >>
    /\ dIndex \in 0..MaxSeed
    /\ dTTL \in 1..MaxTTL
    /\ dLastUpdate = ZeroTime
    /\ dpc = Idle
    /\ dLast = NoRefresh
    /\ rrLog = << >>

DiscoveryNext ==
    \/ \E call \in Callers : DRefresh(call[1], call[2])
    \/ \E list \in UpdateLists : DUpdate(list)
    \/ DSelect
    \/ DGetAll
    \/ Tick

DiscoverySpecInit ==
    ConnInit /\ handleTimeout = 0 /\ RegistryIdle /\ DiscoveryInit /\ SetupIdle

DiscoverySpec == DiscoverySpecInit /\ [][DiscoveryNext]_vars


(***************************************************************************)
(* The static discovery alone: a MultiServerDiscovery built over a given   *)
(* list, its Get and its Update.                                           *)
(***************************************************************************)
\* What Get(RoundRobinSelect) returns: s := d.servers[d.index%n]
Selected ==
    [idx |-> dIndex,
     pos |-> RoundRobinPick(dIndex, Len(dServers)),
     addr |-> dServers[RoundRobinPick(dIndex, Len(dServers))]]

\* MultiServerDiscovery.Get(mode); what RoundRobinSelect returns is logged.
MGet(mode) ==
    /\ MultiGet(mode)
    /\ IF Len(dServers) # 0 /\ mode = "RoundRobinSelect"
       THEN /\ Len(rrLog) < MaxGets
            /\ rrLog' = Append(rrLog, Selected)
       ELSE UNCHANGED rrLog
    /\ UNCHANGED <<dServers, dTTL, dLastUpdate, dpc, dLast>>
    /\ UNCHANGED <<clientVars, connVars, serverVars, regVars, svcVars, dialVars>>

\* MultiServerDiscovery.Update(servers)
MUpdate(list) ==
    /\ dServers' = list
    /\ rrLog' = << >>
    /\ UNCHANGED <<dIndex, dTTL, dLastUpdate, dpc, dLast>>
    /\ UNCHANGED <<clientVars, connVars, serverVars, regVars, svcVars, dialVars>>

\* NewMultiServerDiscovery(servers)
MultiInit ==
    /\ dServers \in UpdateLists
    /\ dIndex \in 0..MaxSeed
    /\ dTTL = 1
    /\ dLastUpdate = ZeroTime
    /\ dpc = Idle
    /\ dLast = NoRefresh
    /\ rrLog = << >>

MultiNext ==
    \/ \E mode \in Modes : MGet(mode)
    \/ \E list \in UpdateLists : MUpdate(list)

MultiSpecInit ==
    ConnInit /\ handleTimeout = 0 /\ RegistryIdle /\ MultiInit /\ SetupIdle

MultiSpec == MultiSpecInit /\ [][MultiNext]_vars


(***************************************************************************)
(* Setting up: goroutines registering services on one Server               *)
(* (Server.Register), and a client dialling (dialTimeout with NewClient).  *)
(***************************************************************************)
Registrants == 1..NRegistrants

\* reflect.Indirect(rcvr).Type().Name() of the receivers handed to Register.
ServiceNames == {"Foo", "Bar"}

\* Mutant of LoadOrStore: the service is stored over the one already there.
LoadOrStore_Store(m, name, g) == [m EXCEPT ![name] = g]

\* s.serviceMap.LoadOrStore(service.name, service): the map afterwards.
LoadOrStore(m, name, g) == IF m[name] # 0 THEN m ELSE [m EXCEPT ![name] = g]

\* Register: service := newService(rcvr)
NewService(g, name) ==
    /\ gpc[g] = "idle"
    /\ gName' = [gName EXCEPT ![g] = name]
    /\ gpc' = [gpc EXCEPT ![g] = "built"]
    /\ UNCHANGED <<serviceMap, gRet>>
    /\ UNCHANGED <<clientVars, connVars, serverVars, regVars, discVars, dialVars>>

\* Register: if _, dup := s.serviceMap.LoadOrStore(...); dup { return
\* errors.New("rpc: service already defined:" + service.name) }; return nil
Register(g) ==
    /\ gpc[g] = "built"
    /\ serviceMap' = LoadOrStore(serviceMap, gName[g], g)
    /\ gRet' = [gRet EXCEPT ![g] = IF serviceMap[gName[g]] # 0 THEN ErrDefined ELSE NoErr]
    /\ gpc' = [gpc EXCEPT ![g] = "done"]
    /\ UNCHANGED gName
    /\ UNCHANGED <<clientVars, connVars, serverVars, regVars, discVars, dialVars>>

NoResult == [client |-> FALSE, err |-> NoErr]

\* dialTimeout up to the select: parseOptions and net.DialTimeout may fail
\* (return nil, err); otherwise the connection is open, ch is made and the
\* goroutine running f(conn, opt) is started.
DialStart(e) ==
    /\ dlpc = "start"
    /\ IF e # NoErr
       THEN /\ dlRet' = [client |-> FALSE, err |-> e]
            /\ dlpc' = "returned"
            /\ UNCHANGED <<dlConn, ipc>>
       ELSE /\ dlConn' = "open"
            /\ ipc' = "running"
            /\ dlpc' = "wait"
            /\ UNCHANGED dlRet
    /\ UNCHANGED <<connectTimeout, iResult, dlTimer, dlTookTimer, dlClosed>>
    /\ UNCHANGED <<clientVars, connVars, serverVars, regVars, discVars, svcVars>>

\* The goroutine: client, err := f(conn, opt) returns, f being NewClient:
\* (nil, err) for an unknown codec type, (nil, err) with the connection
\* closed when the Option cannot be written, else (client, nil). The
\* goroutine then blocks on ch <- clientResult{...}.
InitReturns(e) ==
    /\ ipc = "running"
    /\ iResult' = [client |-> e = NoErr, err |-> e]
    /\ dlConn' = IF e = ErrEncode THEN "closed" ELSE dlConn
    /\ ipc' = "sending"
    /\ UNCHANGED <<connectTimeout, dlpc, dlTimer, dlTookTimer, dlRet, dlClosed>>
    /\ UNCHANGED <<clientVars, connVars, serverVars, regVars, discVars, svcVars>>

\* Mutant of DeferredClose: the connection is left open whatever is returned.
DeferredClose_Never(e) == FALSE

\* dialTimeout's deferred function: if err != nil { _ = conn.Close() }
DeferredClose(e) == e # NoErr

\* dialTimeout receives from ch (result := <-ch, or the select's case
\* result := <-ch) as the goroutine sends, and returns the result.
DialReceive ==
    /\ dlpc = "wait"
    /\ ipc = "sending"
    /\ dlRet' = iResult
    /\ dlClosed' = DeferredClose(iResult.err)
    /\ dlConn' = IF DeferredClose(iResult.err) THEN "closed" ELSE dlConn
    /\ ipc' = "done"
    /\ dlpc' = "returned"
    /\ UNCHANGED <<connectTimeout, iResult, dlTimer, dlTookTimer>>
    /\ UNCHANGED <<clientVars, connVars, serverVars, regVars, discVars, svcVars>>

\* The timer of time.After(opt.ConnectTimeout) fires.
DialTimerFires ==
    /\ connectTimeout # 0
    /\ dlpc = "wait"
    /\ ~dlTimer
    /\ dlTimer' = TRUE
    /\ UNCHANGED <<connectTimeout, dlpc, ipc, iResult, dlTookTimer, dlRet, dlConn, dlClosed>>
    /\ UNCHANGED <<clientVars, connVars, serverVars, regVars, discVars, svcVars>>

\* dialTimeout: the select takes case <-time.After(opt.ConnectTimeout):
\* return nil, fmt.Errorf("rpc client: connect timeout: expect within %s", ...)
DialTimeout ==
    /\ dlpc = "wait"
    /\ dlTimer
    /\ dlTookTimer' = TRUE
    /\ dlRet' = [client |-> FALSE, err |-> ErrConnectTimeout]
    /\ dlClosed' = DeferredClose(ErrConnectTimeout)
    /\ dlConn' = IF DeferredClose(ErrConnectTimeout) THEN "closed" ELSE dlConn
    /\ dlpc' = "returned"
    /\ UNCHANGED <<connectTimeout, ipc, iResult, dlTimer>>
    /\ UNCHANGED <<clientVars, connVars, serverVars, regVars, discVars, svcVars>>

\* NewServer(), and a caller about to enter dialTimeout.
SetupInit ==
    /\ serviceMap = [n \in ServiceNames |-> 0]
    /\ gpc = [g \in Registrants |-> "idle"]
    /\ gName = [g \in Registrants |-> ""]
    /\ gRet = [g \in Registrants |-> NoErr]
    /\ connectTimeout \in {0, 1}
    /\ dlpc = "start"
    /\ ipc = "none"
    /\ iResult = NoResult
    /\ dlTimer = FALSE
    /\ dlTookTimer = FALSE
    /\ dlRet = NoResult
    /\ dlConn = "none"
    /\ dlClosed = FALSE

SetupNext ==
    \/ \E g \in Registrants, name \in ServiceNames : NewService(g, name)
    \/ \E g \in Registrants : Register(g)
    \/ \E e \in {NoErr, ErrOptions, ErrDial} : DialStart(e)
    \/ \E e \in {NoErr, ErrCodec, ErrEncode} : InitReturns(e)
    \/ DialReceive
    \/ DialTimerFires
    \/ DialTimeout

SetupSpecInit ==
    ConnInit /\ handleTimeout = 0 /\ RegistryIdle /\ DiscoveryIdle /\ SetupInit

SetupSpec == SetupSpecInit /\ [][SetupNext]_vars


(***************************************************************************)
(* Properties.                                                             *)
(***************************************************************************)
PendingCalls == {pending[s] : s \in DOMAIN pending}
SendReturned(c) == cpc[c] \in {"await", "returned"}
Registered(c) == callSeq[c] # 0

\* C1: a Call is never sent on its Done channel twice, and once the receive
\* goroutine has finished terminateCalls every Call whose send has returned
\* has been sent on it once.
C1_SignalledExactlyOnce ==
    /\ \A c \in Calls : delivered[c] <= 1
    /\ rpc = "exited" => \A c \in Calls : SendReturned(c) => delivered[c] = 1

\* C1 witness: the client has shut down with one Call completed by a
\* response and another completed by terminateCalls.
C1_Witness ==
    /\ rpc = "exited"
    /\ \E c, d \in Calls :
          /\ delivered[c] = 1 /\ answeredBy[c] = c
          /\ delivered[d] = 1 /\ Registered(d) /\ callErr[d] = ErrRead

\* C2: at most one response is handed to the codec for a request, and at
\* most one response frame carries its sequence number.
C2_AtMostOneResponse ==
    \A r \in Calls :
        /\ respCount[r] <= 1
        /\ reqSeq[r] # 0 => Cardinality({f \in respLog : f.seq = reqSeq[r]}) <= 1

\* C2 witness: the timeout response went out, and the method has since
\* returned an error without a second response.
C2_Witness ==
    \E r \in Calls :
        timedOut[r] /\ respCount[r] = 1 /\ wpc[r] = "called" /\ merr[r] = ErrMethod

\* C3 (as claimed): once the method goroutine has handed over called and
\* finished, a response for the request was written: empty error and the
\* reply when the method returned nil, the method's error and
\* invalidRequest otherwise.
C3_ReturnIsAnswered ==
    \A r \in Calls :
        wpc[r] = "done" =>
            \E f \in respLog :
                /\ f.req = r
                /\ f.seq = reqSeq[r]
                /\ IF merr[r] = NoErr
                   THEN f.err = NoErr /\ f.body = Sum(argv[r])
                   ELSE f.err = merr[r] /\ f.body = InvalidRequest

\* C4 (as claimed): with handle timeout 0 and the client not closed, every
\* synchronous Call whose method returns nil eventually returns nil with
\* the reply computed from its own arguments.
ReturnedOK(c) ==
    cpc[c] = "returned" /\ callErr[c] = NoErr /\ callReply[c] = Sum(ArgsOf(c))

C4_SyncCallsReturn ==
    \A c \in Calls :
        <>(closing \/ handleTimeout # 0 \/ merr[c] # NoErr \/ ReturnedOK(c))

\* C5: every response frame carries the sequence number of the request it
\* answers, and receive completes with a response only the Call that was
\* registered under that number.
C5_SeqIdentifiesCall ==
    /\ \A f \in respLog : f.seq = callSeq[f.req]
    /\ rpc = "body" /\ rcall # 0 => rh.req = rcall /\ rh.seq = callSeq[rcall]
    /\ \A c \in Calls : answeredBy[c] \in {0, c}

\* C5 witness: the Call registered second is completed by its own response
\* while the Call registered first is still waiting.
C5_Witness ==
    \E c, d \in Calls :
        /\ callSeq[d] = FirstSeq /\ delivered[d] = 0 /\ hpc[d] # "none"
        /\ callSeq[c] = FirstSeq + 1 /\ answeredBy[c] = c

\* C6: a Call submitted once closing or shutdown is set gets no sequence
\* number, is not in pending, has no frame written, and is signalled with
\* ErrShutdown by the time send returns; the sequence counter counts
\* exactly the registered Calls.
C6_RefusedAfterDown ==
    /\ \A c \in Calls :
          afterDown[c] =>
              /\ callSeq[c] = 0
              /\ c \notin PendingCalls
              /\ frames[c] = 0
              /\ delivered[c] > 0 => callErr[c] = ErrShutdown
              /\ SendReturned(c) => delivered[c] = 1
    /\ seq = FirstSeq + Cardinality({c \in Calls : Registered(c)})

\* C6 witness: a Call submitted after the receive loop shut the client down
\* (Close was never called) has returned with ErrShutdown.
C6_Witness ==
    \E c \in Calls :
        /\ afterDown[c] /\ cpc[c] = "returned" /\ callErr[c] = ErrShutdown
        /\ shutdown /\ ~closing

\* C7: whenever shutdown is set and the state mutex is free, every
\* registered Call has been signalled, those left in pending with the
\* terminating error.
C7_ShutdownAllSignalled ==
    (shutdown /\ mu = Free) =>
        /\ \A c \in Calls : Registered(c) => delivered[c] = 1
        /\ \A c \in PendingCalls : callErr[c] = rerr

\* C7 witness: terminateCalls has run over a non-empty pending map.
C7_Witness ==
    /\ shutdown /\ mu = Free
    /\ Cardinality(DOMAIN pending) = NCalls

\* C8 (as claimed): if the timer fires while the method has not returned,
\* the handler never receives from called, and every response to the
\* request is the timeout response.
C8_TimerFiredMeansTimeout ==
    \A r \in Calls :
        firedFirst[r] =>
            /\ hpc[r] \in {"waitCalled", "done"}
            /\ hpc[r] = "done" => timedOut[r]
            /\ \A f \in respLog : f.req = r => f.err = ErrHandleTimeout

\* C8 (amended): if the handler's select takes the timer case, the one
\* response written for the request is the timeout response, the handler has
\* finished without receiving from the method goroutine, and the method
\* goroutine, returned or not, has written nothing.
C8_TimerCaseTaken ==
    \A r \in Calls :
        timedOut[r] =>
            /\ handleTimeout # 0
            /\ hpc[r] = "done"
            /\ wpc[r] \in {"call", "called"}
            /\ respCount[r] = 1
            /\ \E f \in respLog : f.req = r
            /\ \A f \in respLog :
                  f.req = r => /\ f.seq = reqSeq[r]
                               /\ f.err = ErrHandleTimeout
                               /\ f.body = InvalidRequest

\* C8 witness: the timer fired with the method still running, the timer case
\* was taken, and the method has returned since.
C8_Witness ==
    \E r \in Calls : firedFirst[r] /\ timedOut[r] /\ wpc[r] = "called"

\* C9 (as claimed): once the serve loop has exited, the codec is eventually
\* closed (every method goroutine that can return does).
C9_CodecEventuallyClosed == (spc = "wait") ~> srvClosed

\* C10 (as claimed): with timeout T > 0, a GET at t' includes an address
\* last posted at t if t' <= t + T and excludes it if t' > t + T.
C10_AliveWithinTimeout ==
    (regTimeout > 0 /\ lastGet.at # NoEntry) =>
        \A a \in Addrs :
            lastGet.posts[a] # NoEntry =>
                /\ lastGet.at <= lastGet.posts[a] + regTimeout => a \in lastGet.alive
                /\ lastGet.at > lastGet.posts[a] + regTimeout => a \notin lastGet.alive

\* C11 (as claimed): a GET returns exactly the addresses that are alive at
\* that moment (now - last heartbeat <= timeout, or timeout 0), sorted and
\* without duplicates; it removes exactly the entries that are not alive;
\* with timeout 0 it removes nothing.
C11_GetReturnsAlive ==
    lastGet.at # NoEntry =>
        LET h == lastGet.header
            entries == {a \in Addrs : lastGet.before[a] # NoEntry}
            alive == {a \in entries :
                         regTimeout = 0 \/ lastGet.at - lastGet.before[a] <= regTimeout}
        IN  /\ {h[i] : i \in 1..Len(h)} = alive
            /\ \A i, j \in 1..Len(h) : i < j => h[i] < h[j]
            /\ \A a \in Addrs :
                  lastGet.after[a] = IF a \in alive THEN lastGet.before[a] ELSE NoEntry
            /\ regTimeout = 0 => lastGet.after = lastGet.before

\* C12: over a server list of size n that has not been updated, whatever the
\* cursor started at, the k-th and the (k+n)-th result of
\* Get(RoundRobinSelect) are equal, and n consecutive results pick every
\* position of the list exactly once.
C12_RoundRobinPeriod ==
    LET n == Len(dServers)
        m == Len(rrLog)
    IN  /\ \A k \in 1..m : rrLog[k].addr = dServers[rrLog[k].pos]
        /\ \A k \in 1..m : k + n <= m => rrLog[k].addr = rrLog[k + n].addr
        /\ \A k \in 1..m :
              k + n - 1 <= m => {rrLog[j].pos : j \in k..(k + n - 1)} = 1..n

\* C12 witness: a list of three entries, a cursor seeded beyond its length,
\* and two full rounds of selections.
C12_Witness ==
    /\ Len(dServers) = 3
    /\ Len(rrLog) >= 6
    /\ rrLog[1].idx > 3
    /\ dServers[1] # dServers[2]

\* What C13 expects of a header: the pieces between its commas, each cut
\* down to its first through last non-blank character, the blank pieces
\* dropped, in the order of the header.
C13_Entries ==
    [resp \in Headers |->
        LET len == Len(resp)
            cuts == {0} \cup {i \in 1..len : resp[i] = ","}
            end(i) == CHOOSE j \in (cuts \cup {len + 1}) :
                          /\ j > i
                          /\ \A c \in cuts : c > i => j <= c
            inked(i) == {k \in (i + 1)..(end(i) - 1) : resp[k] # " "}
            lo(i) == CHOOSE k \in inked(i) : \A q \in inked(i) : k <= q
            hi(i) == CHOOSE k \in inked(i) : \A q \in inked(i) : k >= q
            kept == {i \in cuts : inked(i) # {}}
            nth(k) == CHOOSE i \in kept : Cardinality({g \in kept : g <= i}) = k
        IN  [k \in 1..Cardinality(kept) |-> SubSeq(resp, lo(nth(k)), hi(nth(k)))]]

\* C13: a Refresh that runs less than the TTL after the last pull or Update
\* fetches nothing and leaves the server list and the last-update time as
\* they were; any other Refresh fetches, and when the registry answers it
\* stores exactly the trimmed, non-empty, comma-separated entries of the
\* header, in order, and sets the last-update time (a failed fetch changes
\* nothing).
C13_RefreshWithinTTL ==
    [][ (dLast' # NoRefresh /\ now' = now) =>
          IF now - dLastUpdate < dTTL
          THEN /\ ~dLast'.fetched
               /\ dServers' = dServers
               /\ dLastUpdate' = dLastUpdate
          ELSE /\ dLast'.fetched
               /\ dLast'.ok => dServers' = C13_Entries[dLast'.resp] /\ dLastUpdate' = now
               /\ ~dLast'.ok => dServers' = dServers /\ dLastUpdate' = dLastUpdate
      ]_vars

\* C13 witness: after the TTL had run out, a Refresh fetched a header with
\* white space and an empty entry and stored the one address in it.
C13_Witness ==
    /\ dLast.fetched /\ dLast.ok
    /\ now > 0 /\ dLastUpdate = now
    /\ \E i, j \in 1..Len(dLast.resp) : dLast.resp[i] = " " /\ dLast.resp[j] = ","
    /\ Len(dServers) = 1

\* C15: once ServeConn has read an Option with a wrong magic number or with
\* a codec type that has no factory, it has returned with the connection
\* closed: no codec was built, no request was taken off the stream, no
\* method was invoked and no response was written.
C15_RefusedBeforeCodec ==
    (/\ spc # "accept"
     /\ sopt.decodes
     /\ sopt.magic # MagicNumber \/ sopt.codeType \notin NewCodecFuncMap) =>
        /\ spc = "refused"
        /\ srvClosed
        /\ ~sCodec
        /\ Cardinality({i \in 1..Len(c2s) : c2s[i].kind = "H"})
              = Cardinality({c \in Calls : frames[c] = 1})
        /\ \A r \in Calls : reqSeq[r] = 0 /\ hpc[r] = "none" /\ wpc[r] = "none"
        /\ wg = 0
        /\ respLog = {}
        /\ s2c = << >>

\* C15 witness: the magic number was right but the codec type has no
\* factory; every request the peer wrote lies unread, and the peer's
\* receive loop has ended on the closed connection.
C15_Witness ==
    /\ spc = "refused"
    /\ sopt.decodes /\ sopt.magic = MagicNumber /\ sopt.codeType = JsonType
    /\ Len(c2s) = 2 * NCalls
    /\ rpc = "exited"

\* C14: of the Register calls made for one service name, concurrent or not,
\* exactly one returns nil; every other returns the 'service already
\* defined' error, and the service the successful call stored stays in the
\* map.
C14_OneRegistrationWins ==
    \A n \in ServiceNames :
        LET done == {g \in Registrants : gpc[g] = "done" /\ gName[g] = n}
            won == {g \in done : gRet[g] = NoErr}
        IN  /\ done # {} => Cardinality(won) = 1
            /\ \A g \in done \ won : gRet[g] = ErrDefined
            /\ \A g \in won : serviceMap[n] = g

\* C14 witness: every registrant has registered the same name.
C14_Witness ==
    \E n \in ServiceNames :
        \A g \in Registrants : gpc[g] = "done" /\ gName[g] = n

\* C16 (as claimed): with ConnectTimeout > 0, if the timer fired before the
\* result of the initialisation was received, dialTimeout returns no client
\* and the connect-timeout error with the connection closed; and whenever it
\* returns a client it returns no error and has not closed the connection.
C16_TimerFiredMeansTimeout ==
    dlpc = "returned" =>
        /\ (connectTimeout > 0 /\ dlTimer) =>
              /\ ~dlRet.client
              /\ dlRet.err = ErrConnectTimeout
              /\ dlConn = "closed"
        /\ dlRet.client => dlRet.err = NoErr /\ ~dlClosed

\* C16 (amended): if the select takes the timer case, dialTimeout returns no
\* client and the connect-timeout error and has closed the connection; and
\* whenever it returns a client it returns no error and the connection is
\* open, not closed by it.
C16_TimerCaseTaken ==
    dlpc = "returned" =>
        /\ dlTookTimer =>
              /\ connectTimeout > 0
              /\ ~dlRet.client
              /\ dlRet.err = ErrConnectTimeout
              /\ dlClosed
              /\ dlConn = "closed"
        /\ dlRet.client => dlRet.err = NoErr /\ ~dlClosed /\ dlConn = "open"

\* C16 witness: the timer case was taken while f was still running, and f
\* has returned a client since.
C16_Witness ==
    /\ dlpc = "returned" /\ dlTookTimer
    /\ ipc = "sending" /\ iResult.client

\* C17 (as claimed): after dialTimeout returned the connect-timeout error,
\* the initialisation goroutine, once f has returned, has finished or can
\* finish: its send on ch can proceed.
C17_InitTaskTerminates ==
    (dlpc = "returned" /\ dlRet.err = ErrConnectTimeout /\ ipc # "running") =>
        ipc = "done" \/ ENABLED DialReceive

\* C18: of the Close calls made on a client, the first closes the codec and
\* every later one returns ErrShutdown and leaves the codec alone; and
\* IsAvailable, which is (not closing and not shutdown), never turns from
\* false to true.
C18_CloseOnce ==
    /\ [](/\ \A i \in 1..Len(closeRets) :
               IF i = 1
               THEN closeRets[i].closed
               ELSE closeRets[i].err = ErrShutdown /\ ~closeRets[i].closed
          /\ closing = (closeRets # << >>)
          /\ ccClosed = closing
          /\ IsAvailable = (~closing /\ ~shutdown))
    /\ [][IsAvailable' => IsAvailable]_vars

\* C18 witness: the receive loop had already shut the client down when
\* Close was called twice.
C18_Witness ==
    /\ Len(closeRets) = 2
    /\ closeRets[1].closed /\ closeRets[2].err = ErrShutdown
    /\ shutdown /\ rpc = "exited" /\ connBroken

\* C19 (as claimed): the background receive task never holds the send mutex,
\* in any state from its start to its end, termination included.
C19_ReceiveNeverHoldsSending == sending # Receiver

\* C20 (as claimed): whenever a Call is signalled (one more send on its Done
\* channel), the task that signals it, the sender of that Call on the
\* registration-failure and write-failure paths and the receive task on the
\* response and termination paths, holds neither the send mutex nor the
\* state mutex.
C20_SignalHoldsNoMutex ==
    [][\A c \in Calls :
          delivered'[c] > delivered[c] =>
              LET task == IF cpc[c] \in {"refused", "failed"}
                          THEN Sender(c) ELSE Receiver
              IN  sending # task /\ mu # task]_vars

\* C21 (as claimed): a Call that has been signalled is no longer in the
\* pending map, in every state; in particular the pending map is empty once
\* termination has finished.
C21_SignalledNotPending ==
    /\ \A s \in DOMAIN pending : delivered[pending[s]] = 0
    /\ rpc = "exited" => DOMAIN pending = {}

\* C22: sequence numbers start at 1 and every successful registration takes
\* the previous number plus 1 while a refused one takes none, so the
\* registered Calls carry exactly 1..seq-1 with no number shared, every
\* pending key is the number of the Call stored under it, a frame is written
\* only for a registered Call, and the request headers are written in
\* strictly increasing sequence order.
C22_SequenceNumbers ==
    /\ [](/\ seq >= FirstSeq
          /\ {callSeq[c] : c \in {d \in Calls : Registered(d)}} = FirstSeq..(seq - 1)
          /\ \A c, d \in Calls :
                Registered(c) /\ c # d => callSeq[c] # callSeq[d]
          /\ \A s \in DOMAIN pending : callSeq[pending[s]] = s
          /\ \A c \in Calls : cpc[c] = "refused" => ~Registered(c)
          /\ \A c \in Calls : frames[c] > 0 => Registered(c)
          /\ \A i, j \in DOMAIN c2s :
                (i < j /\ c2s[i].kind = "H" /\ c2s[j].kind = "H") =>
                    c2s[i].seq < c2s[j].seq)
    /\ [][/\ seq' # seq =>
                \E c \in Calls : /\ ~Registered(c)
                                 /\ callSeq'[c] = seq
                                 /\ seq' = seq + 1
          /\ \A c \in Calls :
                /\ callSeq'[c] # callSeq[c] => ~Registered(c) /\ callSeq'[c] = seq
                /\ cpc'[c] = "refused" => seq' = seq
                /\ frames'[c] > frames[c] =>
                      /\ Registered(c)
                      /\ \A d \in Calls : frames[d] > 0 => callSeq[d] < callSeq[c]
                      /\ c2s'[Len(c2s') - 1].seq = callSeq[c]]_vars

\* C22 witness: two Calls were registered with 1 and 2 and both request
\* frames are on the wire, the second behind the first.
C22_Witness ==
    /\ seq = FirstSeq + 2
    /\ \A c \in Calls : frames[c] = 1
    /\ Len(c2s) = 4
    /\ c2s[1].seq = FirstSeq /\ c2s[3].seq = FirstSeq + 1

\* C23 (as claimed): after a request whose service/method does not resolve
\* was answered with an error response, the serve loop continues with the
\* stream in step: whenever readRequest starts, what stands at the head of
\* the stream is the header of the next request, and the loop stops reading
\* only when the stream has ended.
C23_LoopContinues ==
    /\ []((spc = "serve" /\ c2s # << >>) => Head(c2s).kind = "H")
    /\ [][(spc = "serve" /\ spc' = "wait") => (c2s = << >> /\ ClientConnDown)]_vars

\* The steps of send between client.sending.Lock() and the deferred Unlock.
SendSection(c) ==
    \/ RegisterCall(c) \/ SignalRefused(c) \/ WriteRequest(c) \/ WriteFails(c)
    \/ RemoveFailed(c) \/ SignalFailed(c) \/ SendUnlock(c)

\* The steps of terminateCalls after client.sending.Lock().
TermSection == TermLockMu \/ (\E s \in termTodo : TermSignal(s)) \/ TermUnlock

\* What is left of a critical section: the statements of send still to run,
\* and the iterations and unlocks of terminateCalls still to run.
SendRank(c) ==
    CASE cpc[c] = "register" -> 5
      [] cpc[c] \in {"refused", "write"} -> 4
      [] cpc[c] = "remove" -> 3
      [] cpc[c] = "failed" -> 2
      [] cpc[c] = "unlock" -> 1
      [] OTHER -> 0
TermRank ==
    CASE rpc = "lockMu" -> NCalls + 2
      [] rpc = "range" -> Cardinality(termTodo) + 1
      [] OTHER -> 0

\* C24: with a Done channel of capacity >= 1 per Call, no task is stuck on
\* the send mutex or the state mutex: the holder of the send mutex always
\* has a step of its critical section to take, the state mutex is held
\* across steps only by the holder of the send mutex (send mutex first), no
\* task takes the send mutex while it holds the state mutex, and every step
\* inside a critical section brings its end nearer, so each holder releases.
C24_NoMutexDeadlock ==
    /\ [](/\ \A c \in Calls : sending = Sender(c) => ENABLED SendSection(c)
          /\ sending = Receiver => ENABLED TermSection
          /\ mu # Free => mu = sending
          /\ \A c \in Calls : doneChan[c] <= DoneCap)
    /\ [][/\ sending' # sending /\ sending' # Free => mu # sending'
          /\ \A c \in Calls :
                (sending = Sender(c) /\ cpc'[c] # cpc[c]) =>
                    /\ SendRank(c)' < SendRank(c)
                    /\ SendRank(c)' = 0 <=> sending' = Free
          /\ (sending = Receiver /\ <<rpc, termTodo>>' # <<rpc, termTodo>>) =>
                    /\ TermRank' < TermRank
                    /\ TermRank' = 0 <=> (sending' = Free /\ mu' = Free)]_vars

\* C24 witness: Close was called, the receive loop has ended and waits for
\* the send mutex, held by a sender that is about to take the state mutex
\* to remove its Call, while the other Call is still pending.
C24_Witness ==
    /\ rpc = "terminate"
    /\ closing
    /\ \E c \in Calls : sending = Sender(c) /\ cpc[c] = "remove"
    /\ Cardinality(DOMAIN pending) = 2

====
